---- MODULE Spec2Model ----
(***************************************************************************)
(* Power management of a zos node (pkg/node/power.go): the PowerServer of  *)
(* one node, called Self, together with its environment: the ledger, the   *)
(* farm's election, the peers that call POST /power, the event stream.     *)
(*                                                                         *)
(* Every operation of the server is one action.  An operation leaves a     *)
(* record of what it was given and of the effects it had, in the order the *)
(* code has them (fx), so that properties of one run of a handler are      *)
(* state predicates.                                                       *)
(***************************************************************************)
EXTENDS Integers, Sequences, FiniteSets, TLC

VARIABLES
    elected,    \* the node currently elected leader of Self's farm (0: none)
    chainSelf,  \* the ledger's power record of Self
    cancelled,  \* the context given to Start is cancelled
    http,       \* the POST /power request being served and its outcome
    ev,         \* the events goroutine: position, event and record at hand, outcome
    sync,       \* the synchronize goroutine: position, node at hand, outcome
    call,       \* a function of the server applied on its own: inputs and result
    stream      \* the event stream: events published and not yet taken, history

vars == <<elected, chainSelf, cancelled, http, ev, sync, call, stream>>

----------------------------------------------------------------------------
(* Bounds of the model *)

\* node ids are 1..NumNodes; the last one belongs to another farm
NumNodes == 4
\* a node record holds at most MaxIfaces interfaces
MaxIfaces == 2
\* the interfaces of a node record hold at most MaxIPs addresses together
MaxIPs == 2

(* Program values *)

downTarget == "down"
wolInterface == "zos"

\* PowerServer.node and PowerServer.farm of the server modelled
Self == 1
MyFarm == 7

Nodes == 1..NumNodes

\* Node.FarmID as the ledger holds it
FarmOf(n) == IF n = NumNodes THEN MyFarm + 1 ELSE MyFarm

FarmNodes == {n \in Nodes : FarmOf(n) = MyFarm}

\* the responses of pkg/mw
StatusAccepted == 202
StatusBadRequest == 400
StatusUnAuthorized == 401
StatusForbidden == 403
StatusError == 500

----------------------------------------------------------------------------
(* Effects: the calls an operation makes on the outside world, in order.   *)
(* ok tells whether the call succeeded.                                    *)

Fx(kind, ok) ==
    [kind |-> kind, ok |-> ok, leader |-> 0, node |-> 0, addr |-> "", target |-> ""]

\* sub.SetNodePowerState(identity, PowerState{IsUp: true})
FxSetUp(ok) == Fx("SetStateUp", ok)

\* sub.SetNodePowerState(identity, PowerState{IsDown: true, Leader: leader})
FxSetDown(leader, ok) == [Fx("SetStateDown", ok) EXCEPT !.leader = leader]

Kinds(fx) == {fx[i].kind : i \in DOMAIN fx}

\* the positions of the effects of a kind
At(fx, kind) == {i \in DOMAIN fx : fx[i].kind = kind}

----------------------------------------------------------------------------
(* Local shutdown *)

\* the outcomes of the calls shutdown makes: ut.SendNow, init.Shutdown, init.Reboot
ShutdownOutcomes ==
    {o \in [uptime : BOOLEAN, init : {"ok", "notSupported", "error"}, reboot : BOOLEAN] :
        o.init # "notSupported" => o.reboot}

\* PowerServer.shutdown: its effects and whether it returns an error
shutdown(o) ==
    LET first == <<Fx("SendNow", o.uptime), Fx("Shutdown", o.init = "ok")>>
    IN  IF o.init = "notSupported"
        THEN [fx |-> Append(first, Fx("Reboot", o.reboot)), err |-> ~o.reboot]
        ELSE [fx |-> first, err |-> o.init # "ok"]

----------------------------------------------------------------------------
(* POST /power *)

\* the body of a request: ok tells whether it decodes to a powerRequest
NoBody == [ok |-> FALSE, Leader |-> 0, Node |-> 0, Target |-> ""]

Bodies ==
    {NoBody} \cup [ok : {TRUE}, Leader : Nodes, Node : Nodes, Target : {downTarget, "up"}]

\* a request: the identity its signature claims, whether the signature verifies
Requests == [caller : Nodes, sigValid : BOOLEAN, body : Bodies]

NoRequest == [caller |-> 0, sigValid |-> FALSE, body |-> NoBody]

\* the outcomes of the ledger calls of the handler:
\* p.sub.Substrate, sub.GetNode, sub.SetNodePowerState
ChainOutcomes ==
    {o \in [connect : BOOLEAN, getNode : BOOLEAN, setState : BOOLEAN] :
        /\ ~o.connect => o.getNode
        /\ ~o.getNode => o.setState}

Reply(code, fx) == [resp |-> code, fx |-> fx]

\* faulty variant: the node shuts down before the ledger is written
powerDownSelf_shutdownFirst(leader, chain, sd) ==
    LET tx == FxSetDown(leader, chain.setState)
        s == shutdown(sd)
    IN  IF s.err THEN Reply(StatusError, s.fx)
        ELSE IF ~chain.setState THEN Reply(StatusError, s.fx \o <<tx>>)
        ELSE Reply(StatusAccepted, s.fx \o <<tx>>)

\* faulty variant: the error of SetNodePowerState is dropped
powerDownSelf_ignoreSetError(leader, chain, sd) ==
    LET tx == FxSetDown(leader, chain.setState)
        s == shutdown(sd)
    IN  IF s.err THEN Reply(StatusError, <<tx>> \o s.fx)
        ELSE Reply(StatusAccepted, <<tx>> \o s.fx)

\* PowerServer.power from the SetNodePowerState call on
powerDownSelf(leader, chain, sd) ==
    LET tx == FxSetDown(leader, chain.setState)
        s == shutdown(sd)
    IN  IF ~chain.setState THEN Reply(StatusError, <<tx>>)
        ELSE IF s.err THEN Reply(StatusError, <<tx>> \o s.fx)
        ELSE Reply(StatusAccepted, <<tx>> \o s.fx)

\* faulty variant: a leader serves the request like any node
power_noLeaderCheck(isLeader, caller, body, chain, sd) ==
    IF ~body.ok THEN Reply(StatusBadRequest, <<>>)
    ELSE IF caller # body.Leader THEN Reply(StatusUnAuthorized, <<>>)
    ELSE IF body.Target # downTarget THEN Reply(StatusBadRequest, <<>>)
    ELSE IF ~chain.connect THEN Reply(StatusError, <<>>)
    ELSE IF ~chain.getNode THEN Reply(StatusError, <<>>)
    ELSE IF FarmOf(caller) # MyFarm THEN Reply(StatusUnAuthorized, <<>>)
    ELSE powerDownSelf(body.Leader, chain, sd)

\* faulty variant: the target of the body is not looked at
power_noTargetCheck(isLeader, caller, body, chain, sd) ==
    IF isLeader THEN Reply(StatusForbidden, <<>>)
    ELSE IF ~body.ok THEN Reply(StatusBadRequest, <<>>)
    ELSE IF caller # body.Leader THEN Reply(StatusUnAuthorized, <<>>)
    ELSE IF ~chain.connect THEN Reply(StatusError, <<>>)
    ELSE IF ~chain.getNode THEN Reply(StatusError, <<>>)
    ELSE IF FarmOf(caller) # MyFarm THEN Reply(StatusUnAuthorized, <<>>)
    ELSE powerDownSelf(body.Leader, chain, sd)

\* faulty variant: the farm of the leader is not looked at
power_noFarmCheck(isLeader, caller, body, chain, sd) ==
    IF isLeader THEN Reply(StatusForbidden, <<>>)
    ELSE IF ~body.ok THEN Reply(StatusBadRequest, <<>>)
    ELSE IF caller # body.Leader THEN Reply(StatusUnAuthorized, <<>>)
    ELSE IF body.Target # downTarget THEN Reply(StatusBadRequest, <<>>)
    ELSE IF ~chain.connect THEN Reply(StatusError, <<>>)
    ELSE IF ~chain.getNode THEN Reply(StatusError, <<>>)
    ELSE powerDownSelf(body.Leader, chain, sd)

\* PowerServer.power: isLeader is what p.elections.IsLeader() answers, caller
\* is mw.TwinID of the request
power(isLeader, caller, body, chain, sd) ==
    IF isLeader THEN Reply(StatusForbidden, <<>>)
    ELSE IF ~body.ok THEN Reply(StatusBadRequest, <<>>)
    ELSE IF caller # body.Leader THEN Reply(StatusUnAuthorized, <<>>)
    ELSE IF body.Target # downTarget THEN Reply(StatusBadRequest, <<>>)
    ELSE IF ~chain.connect THEN Reply(StatusError, <<>>)
    ELSE IF ~chain.getNode THEN Reply(StatusError, <<>>)
    ELSE IF FarmOf(caller) # MyFarm THEN Reply(StatusUnAuthorized, <<>>)
    ELSE powerDownSelf(body.Leader, chain, sd)

\* the route of Start: the auth middleware in front of the handler
authorized(r, isLeader, chain, sd) ==
    IF ~r.sigValid THEN Reply(StatusUnAuthorized, <<>>)
    ELSE power(isLeader, r.caller, r.body, chain, sd)

\* what the ledger holds for Self after the effects fx
ChainAfter(rec, fx) ==
    LET ups == {i \in DOMAIN fx : fx[i].kind = "SetStateUp" /\ fx[i].ok}
        downs == {i \in DOMAIN fx : fx[i].kind = "SetStateDown" /\ fx[i].ok}
    IN  IF downs # {}
        THEN [rec EXCEPT !.state = "Down", !.leader = fx[CHOOSE i \in downs : TRUE].leader]
        ELSE IF ups # {} THEN [rec EXCEPT !.state = "Up", !.leader = 0]
        ELSE rec

HttpIdle ==
    [pc |-> "idle", req |-> NoRequest, isLeader |-> FALSE, elected |-> 0,
     chain |-> [connect |-> TRUE, getNode |-> TRUE, setState |-> TRUE],
     resp |-> 0, fx |-> <<>>]

\* The goroutines of Start share no state but the context.  An operation of
\* one is not interleaved with the others: the events goroutine runs neither
\* syncSelf nor a handler while a pass of syncNodes runs or a request is
\* served, and the other way round.
EventsQuiet == ev.pc \notin {"synced", "event", "handled"}

SyncQuiet == sync.pc \in {"start", "exited"}

HttpQuiet == http.pc \in {"idle", "closed"}

\* the requests of one peer of the farm: without a body that decodes, or
\* asking Self down in its own name
FewRequests ==
    [caller : {Self + 1}, sigValid : BOOLEAN,
     body : {NoBody, [ok |-> TRUE, Leader |-> Self + 1, Node |-> Self, Target |-> downTarget]}]

\* a request reaches the server; few tells to take it among FewRequests
ArriveOn(few) ==
    /\ http.pc = "idle"
    /\ EventsQuiet /\ SyncQuiet
    /\ \E r \in IF few THEN FewRequests ELSE Requests :
        http' = [HttpIdle EXCEPT !.pc = "serving", !.req = r]
    /\ UNCHANGED <<elected, chainSelf, cancelled, ev, sync, call, stream>>

Arrive == ArriveOn(FALSE)

ArriveFew == ArriveOn(TRUE)

\* the server runs the route on it
Serve ==
    /\ http.pc = "serving"
    /\ \E chain \in ChainOutcomes, sd \in ShutdownOutcomes :
        LET out == authorized(http.req, elected = Self, chain, sd)
        IN  /\ http' = [http EXCEPT !.pc = "done", !.isLeader = (elected = Self),
                                     !.elected = elected, !.chain = chain,
                                     !.resp = out.resp, !.fx = out.fx]
            /\ chainSelf' = ChainAfter(chainSelf, out.fx)
    /\ UNCHANGED <<elected, cancelled, ev, sync, call, stream>>

\* the response is written
Respond ==
    /\ http.pc = "done"
    /\ http' = HttpIdle
    /\ UNCHANGED <<elected, chainSelf, cancelled, ev, sync, call, stream>>

\* Start: the context is done, server.Shutdown makes ListenAndServe return
\* http.ErrServerClosed and Start returns
ServerShutdown ==
    /\ cancelled
    /\ http.pc # "closed"
    /\ http' = [HttpIdle EXCEPT !.pc = "closed"]
    /\ UNCHANGED <<elected, chainSelf, cancelled, ev, sync, call, stream>>

----------------------------------------------------------------------------
(* The environment *)

\* the farm elects a leader
Elect ==
    /\ \E n \in FarmNodes : n # elected /\ elected' = n
    /\ UNCHANGED <<chainSelf, cancelled, http, ev, sync, call, stream>>

\* the farmer sets the power target of Self on the ledger
SetTarget ==
    /\ \E t \in {"Up", "Down"} : t # chainSelf.target /\ chainSelf' = [chainSelf EXCEPT !.target = t]
    /\ UNCHANGED <<elected, cancelled, http, ev, sync, call, stream>>

----------------------------------------------------------------------------
(* Node records of the ledger *)

\* the addresses a record may hold, and what the host makes of each
IPs == {"10.0.0.5", "10.0.1.9", "not-an-ip"}

\* Direct.idx: the link index of the zos bridge, taken by NewDirect
ZosIndex == 2

\* net.ParseIP: whether the string is an address
ParseIP(ip) == ip # "not-an-ip"

\* netlink.RouteGet on the host of Self: the routes to an address
RouteGet(ip) ==
    CASE ip = "10.0.0.5" -> [err |-> FALSE, routes |-> <<[Gw |-> FALSE, LinkIndex |-> ZosIndex]>>]
      [] ip = "10.0.1.9" -> [err |-> FALSE, routes |-> <<[Gw |-> TRUE, LinkIndex |-> ZosIndex]>>]
      [] OTHER -> [err |-> TRUE, routes |-> <<>>]

\* faulty variant: a failed route lookup is returned as an error
IsDirectOn_lookupError(ip, r) ==
    IF ~ParseIP(ip) THEN [local |-> FALSE, err |-> TRUE]
    ELSE IF r.err THEN [local |-> FALSE, err |-> TRUE]
    ELSE [local |-> \E i \in DOMAIN r.routes :
                       ~r.routes[i].Gw /\ r.routes[i].LinkIndex = ZosIndex,
          err |-> FALSE]

\* Direct.IsDirect, r being what netlink.RouteGet answers for the address
IsDirectOn(ip, r) ==
    IF ~ParseIP(ip) THEN [local |-> FALSE, err |-> TRUE]
    ELSE IF r.err THEN [local |-> FALSE, err |-> FALSE]
    ELSE [local |-> \E i \in DOMAIN r.routes :
                       ~r.routes[i].Gw /\ r.routes[i].LinkIndex = ZosIndex,
          err |-> FALSE]

\* Direct.IsDirect on the host of Self
IsDirect(ip) == IsDirectOn(ip, RouteGet(ip))

IfaceNames == {wolInterface, "eth0"}

SomeMac == "02:00:00:00:00:09"

\* the sequences of at most n addresses
IPSeqs(n) == UNION {[1..k -> IPs] : k \in 0..n}

\* the interface lists of at most k interfaces holding at most t addresses
RECURSIVE IfaceLists(_, _)
IfaceLists(k, t) ==
    IF k = 0 THEN {<<>>}
    ELSE {<<>>} \cup UNION {
            {<<[Name |-> name, Mac |-> SomeMac, IPs |-> ips]>> \o rest :
                rest \in IfaceLists(k - 1, t - Len(ips))} :
            name \in IfaceNames, ips \in IPSeqs(t)}

\* the interface lists of at most k interfaces without addresses, with or
\* without a MAC
MacLists(k) ==
    UNION {[1..n -> [Name : IfaceNames, Mac : {"", SomeMac}, IPs : {<<>>}]] : n \in 0..k}

\* powerDown reads no Mac and powerUp reads no IPs: the records vary the one
\* or the other
Interfaces == IfaceLists(MaxIfaces, MaxIPs) \cup MacLists(MaxIfaces)

\* uint64 values as four 16-bit limbs, the least significant first
Limb == 65536

U64(l0, l1, l2, l3) == <<l0, l1, l2, l3>>

\* x + k modulo 2^64, for 0 <= k < Limb * Limb
AddU64(x, k) ==
    LET s0 == x[1] + (k % Limb)
        s1 == x[2] + (k \div Limb) + (s0 \div Limb)
        s2 == x[3] + (s1 \div Limb)
        s3 == x[4] + (s2 \div Limb)
    IN  <<s0 % Limb, s1 % Limb, s2 % Limb, s3 % Limb>>

\* x >= y
GeqU64(x, y) ==
    \/ x = y
    \/ \E i \in 1..4 : x[i] > y[i] /\ \A j \in (i + 1)..4 : x[j] = y[j]

\* the uptime period of needNudge, in seconds per unit
NudgeUnit == 1200
NudgeBase == 24

\* faulty variant: the nudge is due only within one unit after the deadline
needNudge_window(id, ts, now) ==
    LET next == AddU64(ts, (NudgeBase + (id % NudgeBase)) * NudgeUnit)
    IN  GeqU64(now, next) /\ ~GeqU64(now, AddU64(next, NudgeUnit))

\* PowerServer.needNudge, now being time.Now().Unix()
needNudge(id, ts, now) ==
    LET next == AddU64(ts, (NudgeBase + (id % NudgeBase)) * NudgeUnit)
    IN  GeqU64(now, next)

\* the timestamps needNudge is given: 1 700 000 000, and 2^64 - 1000, for
\* which the sum of the deadline wraps
LastUpTimes == {U64(61696, 25939, 0, 0), U64(64536, 65535, 65535, 65535)}

\* the clock: 1 700 000 000 s + 1 h and 1 700 000 000 s + 10 h
Clock == {U64(65296, 25939, 0, 0), U64(32160, 25940, 0, 0)}

SomePower == [target |-> "Up", state |-> "Up", lastUp |-> U64(61696, 25939, 0, 0)]

\* the power fields of the records of the ledger: LastUpTime is a time of
\* the ledger's clock, 1 700 000 000
Powers == [target : {"Up", "Down"}, state : {"Up", "Down"}, lastUp : {SomePower.lastUp}]

NoNode == [ID |-> 0, Power |-> SomePower, Interfaces |-> <<>>]

\* the records GetNode may answer for node id, whatever their power fields
RecordsOf(id) == [ID : {id}, Power : {SomePower}, Interfaces : Interfaces]

----------------------------------------------------------------------------
(* Acting on a neighbor *)

\* the first interface of the name, or none
FirstNamed(ifs, name) ==
    LET at == {i \in DOMAIN ifs : ifs[i].Name = name}
    IN  IF at = {} THEN 0 ELSE CHOOSE i \in at : \A j \in at : i <= j

\* PowerServer.powerUp: wake tells whether ether-wake succeeds
powerUp(node, wake) ==
    LET i == FirstNamed(node.Interfaces, "zos")
        mac == IF i = 0 THEN "" ELSE node.Interfaces[i].Mac
    IN  IF mac = "" THEN [fx |-> <<>>, err |-> TRUE]
        ELSE [fx |-> <<[Fx("Wake", wake) EXCEPT !.node = node.ID, !.addr = mac]>>,
              err |-> ~wake]

\* the outcomes of PowerServer.powerRequest: the request cannot be built, or
\* it is handed to the http client, whose outcome is one of three
RequestOutcomes == {"buildError", "connError", "rejected", "accepted"}

\* faulty variant: the error of the http client is returned
powerRequest_transportError(ip, in, o) ==
    [fx |-> <<[kind |-> "PowerRequest", ok |-> o # "buildError", leader |-> in.Leader,
               node |-> in.Node, addr |-> ip, target |-> in.Target]>>,
     err |-> o \in {"buildError", "connError"}]

\* PowerServer.powerRequest(ip, in): a request to ip is handed to the http
\* client (ok) unless it cannot be built
powerRequest(ip, in, o) ==
    [fx |-> <<[kind |-> "PowerRequest", ok |-> o # "buildError", leader |-> in.Leader,
               node |-> in.Node, addr |-> ip, target |-> in.Target]>>,
     err |-> o = "buildError"]

\* faulty variant: the request goes to every address that parses, direct or not
RECURSIVE powerDownLoop_noLocalCheck(_, _, _)
powerDownLoop_noLocalCheck(ips, req, o) ==
    IF ips = <<>> THEN <<>>
    ELSE LET ip == Head(ips)
             d == IsDirect(ip)
         IN  IF d.err THEN powerDownLoop_noLocalCheck(Tail(ips), req, o)
             ELSE powerRequest(ip, req, o).fx \o powerDownLoop_noLocalCheck(Tail(ips), req, o)

\* the loop of powerDown over the addresses of the interface
RECURSIVE powerDownLoop(_, _, _)
powerDownLoop(ips, req, o) ==
    IF ips = <<>> THEN <<>>
    ELSE LET ip == Head(ips)
             d == IsDirect(ip)
         IN  IF d.err THEN powerDownLoop(Tail(ips), req, o)
             ELSE IF ~d.local THEN powerDownLoop(Tail(ips), req, o)
             ELSE powerRequest(ip, req, o).fx \o powerDownLoop(Tail(ips), req, o)

\* PowerServer.powerDown
powerDown(node, o) ==
    LET i == FirstNamed(node.Interfaces, "zos")
        ips == IF i = 0 THEN <<>> ELSE node.Interfaces[i].IPs
        req == [Leader |-> Self, Node |-> node.ID, Target |-> downTarget]
    IN  [fx |-> powerDownLoop(ips, req, o), err |-> FALSE]

Nil == [fx |-> <<>>, err |-> FALSE]

Failed == [fx |-> <<>>, err |-> TRUE]

\* pkg.PowerChangeEvent
Events == [FarmID : {MyFarm, MyFarm + 1}, NodeID : Nodes, Target : {"Up", "Down", "None"}]

NoEvent == [FarmID |-> 0, NodeID |-> 0, Target |-> "None"]

\* faulty variant: an event about Self is handled like that of a neighbor
event_noSelfCheck(e, getNode, node, wake, o) ==
    IF e.FarmID # MyFarm THEN Nil
    ELSE IF ~getNode THEN Failed
    ELSE IF e.Target = "Down" THEN powerDown(node, o)
    ELSE IF e.Target = "Up" THEN powerUp(node, wake)
    ELSE Nil

\* PowerServer.event: getNode tells whether the record is fetched, node is
\* the record fetched
event(e, getNode, node, wake, o) ==
    IF e.FarmID # MyFarm THEN Nil
    ELSE IF ~getNode THEN Failed
    ELSE IF e.NodeID = Self THEN Nil
    ELSE IF e.Target = "Down" THEN powerDown(node, o)
    ELSE IF e.Target = "Up" THEN powerUp(node, wake)
    ELSE Nil

\* faulty variant: State.IsDown is not looked at
syncNode_targetOnly(id, getNode, node, now, wake, o) ==
    IF ~getNode THEN Failed
    ELSE IF node.Power.target = "Up"
         THEN IF needNudge(id, node.Power.lastUp, now) THEN powerUp(node, wake)
              ELSE Nil
    ELSE powerDown(node, o)

\* PowerServer.syncNode
syncNode(id, getNode, node, now, wake, o) ==
    IF ~getNode THEN Failed
    ELSE IF node.Power.target = "Up" \/ node.Power.state = "Down"
         THEN IF needNudge(id, node.Power.lastUp, now) THEN powerUp(node, wake)
              ELSE Nil
    ELSE powerDown(node, o)

\* faulty variant: the node shuts down whenever its target is down
syncSelf_shutdownOnTarget(getNode, rec, chain, sd) ==
    IF ~getNode THEN Failed
    ELSE IF rec.target = "Up"
         THEN IF ~chain.connect THEN Failed
              ELSE [fx |-> <<FxSetUp(chain.setState)>>, err |-> ~chain.setState]
    ELSE shutdown(sd)

\* PowerServer.syncSelf: rec is the power record of Self as fetched
syncSelf(getNode, rec, chain, sd) ==
    IF ~getNode THEN Failed
    ELSE IF rec.target = "Up"
         THEN IF ~chain.connect THEN Failed
              ELSE [fx |-> <<FxSetUp(chain.setState)>>, err |-> ~chain.setState]
    ELSE IF rec.state = "Down" THEN shutdown(sd)
    ELSE Nil

----------------------------------------------------------------------------
(* The event stream of recv *)

\* at most MaxEvents events are published on the stream
MaxEvents == 3

\* the stream before anything is published on it.  The events are numbered
\* as they are published: sent counts them, pending holds those not yet
\* taken by recv, busy those taken whose handler has not returned, done
\* those whose handler has returned, with the error it returned
NoStream == [pending |-> <<>>, sent |-> 0, busy |-> <<>>, done |-> <<>>]

\* the stream after the handler of the event taken last has returned
Handled(s, err) ==
    IF s.busy = <<>> THEN s
    ELSE [s EXCEPT !.busy = SubSeq(@, 1, Len(@) - 1),
                   !.done = Append(@, [n |-> s.busy[Len(s.busy)], err |-> err])]

\* no function is being applied
NoCall == [fn |-> "none"]

----------------------------------------------------------------------------
(* The events goroutine: PowerServer.events and PowerServer.recv *)

\* the outcomes of the ledger calls of syncSelf:
\* p.getNode, p.sub.Substrate, sub.SetNodePowerState
SelfOutcomes ==
    {o \in [getNode : BOOLEAN, connect : BOOLEAN, setState : BOOLEAN] :
        /\ ~o.getNode => o.connect
        /\ ~o.connect => o.setState}

AllOk == [getNode |-> TRUE, connect |-> TRUE, setState |-> TRUE]

EvAt(pc) ==
    [pc |-> pc, event |-> NoEvent, got |-> FALSE, node |-> NoNode, chain |-> AllOk,
     fx |-> <<>>, err |-> FALSE]

\* the records with at most one interface
FewRecordsOf(id) == {r \in RecordsOf(id) : Len(r.Interfaces) <= 1}

\* the records without interfaces
BareRecordsOf(id) == {r \in RecordsOf(id) : r.Interfaces = <<>>}

\* the records GetNode may answer to a handler: all of them, or a part
EventRecords(part, id) ==
    CASE part = "few" -> FewRecordsOf(id)
      [] part = "bare" -> BareRecordsOf(id)
      [] OTHER -> RecordsOf(id)

\* p.ut.Mark.Done(ctx) returns
MarkDone ==
    /\ ev.pc = "mark"
    /\ ev' = EvAt("syncSelf")
    /\ UNCHANGED <<elected, chainSelf, cancelled, http, sync, call, stream>>

\* p.syncSelf() runs; its error is logged
SyncSelf ==
    /\ ev.pc = "syncSelf"
    /\ SyncQuiet /\ HttpQuiet
    /\ \E chain \in SelfOutcomes, sd \in ShutdownOutcomes :
        LET out == syncSelf(chain.getNode, chainSelf, chain, sd)
        IN  /\ ev' = [EvAt("synced") EXCEPT
                        !.got = chain.getNode,
                        !.node = [ID |-> Self,
                                  Power |-> [SomePower EXCEPT !.target = chainSelf.target,
                                                              !.state = chainSelf.state],
                                  Interfaces |-> <<>>],
                        !.chain = chain, !.fx = out.fx, !.err = out.err]
            /\ chainSelf' = ChainAfter(chainSelf, out.fx)
    /\ UNCHANGED <<elected, cancelled, http, sync, call, stream>>

\* recv: events.PowerChangeEvent(ctx) gives a stream
Subscribe ==
    /\ ev.pc \in {"synced", "recv"}
    /\ ev' = EvAt("stream")
    /\ UNCHANGED <<elected, chainSelf, cancelled, http, sync, call, stream>>

\* recv: events.PowerChangeEvent(ctx) fails, recv returns errConnectionError
SubscribeFail ==
    /\ ev.pc \in {"synced", "recv"}
    /\ ev' = EvAt("retry")
    /\ UNCHANGED <<elected, chainSelf, cancelled, http, sync, call, stream>>

\* recv: the stream delivers an event
Receive ==
    /\ ev.pc = "stream"
    /\ SyncQuiet /\ HttpQuiet
    /\ \E e \in Events : ev' = [EvAt("event") EXCEPT !.event = e]
    /\ UNCHANGED <<elected, chainSelf, cancelled, http, sync, call, stream>>

\* an event is published on the stream
Publish ==
    /\ stream.sent < MaxEvents
    /\ stream' = [stream EXCEPT !.sent = @ + 1, !.pending = Append(@, stream.sent + 1)]
    /\ UNCHANGED <<elected, chainSelf, cancelled, http, ev, sync, call>>

\* faulty variant: the next event is taken while a handler is running
Deliver_parallel ==
    /\ ev.pc \in {"stream", "event"}
    /\ stream.pending # <<>>
    /\ \E e \in Events : ev' = [EvAt("event") EXCEPT !.event = e]
    /\ stream' = [stream EXCEPT !.pending = Tail(@),
                                !.busy = Append(@, Head(stream.pending))]
    /\ UNCHANGED <<elected, chainSelf, cancelled, http, sync, call>>

\* recv: the range loop takes the next event of the stream
Deliver ==
    /\ ev.pc = "stream"
    /\ stream.pending # <<>>
    /\ \E e \in Events : ev' = [EvAt("event") EXCEPT !.event = e]
    /\ stream' = [stream EXCEPT !.pending = Tail(@),
                                !.busy = Append(@, Head(stream.pending))]
    /\ UNCHANGED <<elected, chainSelf, cancelled, http, sync, call>>

\* recv: p.event(&event) runs; part tells which of the records to take the
\* record fetched from
HandleEventOn(part) ==
    /\ ev.pc = "event"
    /\ \E got \in BOOLEAN, wake \in BOOLEAN, o \in RequestOutcomes :
       \E node \in IF ~got THEN {NoNode} ELSE EventRecords(part, ev.event.NodeID) :
        LET out == event(ev.event, got, node, wake, o)
        IN  /\ ev' = [ev EXCEPT !.pc = "handled", !.got = got, !.node = node,
                                !.fx = out.fx, !.err = out.err]
            /\ stream' = Handled(stream, out.err)
    /\ UNCHANGED <<elected, chainSelf, cancelled, http, sync, call>>

HandleEvent == HandleEventOn("all")

HandleEventFew == HandleEventOn("few")

HandleEventBare == HandleEventOn("bare")

\* recv: the error of p.event is logged and the loop goes on
NextEvent ==
    /\ ev.pc = "handled"
    /\ ev' = EvAt("stream")
    /\ UNCHANGED <<elected, chainSelf, cancelled, http, sync, call, stream>>

\* the stream is closed: the range loop of recv ends, recv returns nil and
\* events returns
StreamEnd ==
    /\ ev.pc = "stream"
    /\ ev' = EvAt("exited")
    /\ UNCHANGED <<elected, chainSelf, cancelled, http, sync, call, stream>>

\* the context is done: the stream of events.PowerChangeEvent(ctx) is closed,
\* recv returns nil and events returns
StreamCancelled ==
    /\ ev.pc = "stream"
    /\ cancelled
    /\ ev' = EvAt("exited")
    /\ UNCHANGED <<elected, chainSelf, cancelled, http, sync, call, stream>>

\* events: the select after a failed recv takes <-ctx.Done()
RetryCancelled ==
    /\ ev.pc = "retry"
    /\ cancelled
    /\ ev' = EvAt("exited")
    /\ UNCHANGED <<elected, chainSelf, cancelled, http, sync, call, stream>>

\* events: the select after a failed recv takes <-time.After(10 * time.Second)
RetryTimer ==
    /\ ev.pc = "retry"
    /\ ev' = EvAt("recv")
    /\ UNCHANGED <<elected, chainSelf, cancelled, http, sync, call, stream>>

\* the context of Start is cancelled
Cancel ==
    /\ ~cancelled
    /\ cancelled' = TRUE
    /\ UNCHANGED <<elected, chainSelf, http, ev, sync, call, stream>>

----------------------------------------------------------------------------
(* The synchronize goroutine: PowerServer.synchronize and syncNodes *)

\* what sub.GetNodesByFarmID(p.farm) answers: the nodes of the farm
FarmNodeList == [i \in 1..(NumNodes - 1) |-> i]

\* done lists the nodes the pass has called syncNode on, failed tells
\* whether one of these calls returned an error
SyncAt(pc, ids) ==
    [pc |-> pc, ids |-> ids, id |-> 0, got |-> FALSE, node |-> NoNode,
     now |-> U64(0, 0, 0, 0), fx |-> <<>>, err |-> FALSE,
     done |-> <<>>, failed |-> FALSE]

\* the records GetNode may answer for node id
SyncRecordsOf(id) == [ID : {id}, Power : Powers, Interfaces : Interfaces]

\* syncNodes: p.sub.Substrate() and sub.GetNodesByFarmID succeed
SyncStart ==
    /\ sync.pc = "start"
    /\ EventsQuiet /\ HttpQuiet
    /\ sync' = SyncAt("nodes", FarmNodeList)
    /\ UNCHANGED <<elected, chainSelf, cancelled, http, ev, call, stream>>

\* syncNodes: p.sub.Substrate() or sub.GetNodesByFarmID fails
SyncStartFail ==
    /\ sync.pc = "start"
    /\ EventsQuiet /\ HttpQuiet
    /\ sync' = SyncAt("waitShort", <<>>)
    /\ UNCHANGED <<elected, chainSelf, cancelled, http, ev, call, stream>>

\* the records without interfaces
BareSyncRecordsOf(id) == [ID : {id}, Power : Powers, Interfaces : {<<>>}]

\* syncNodes: p.syncNode(sub, nodeID) runs on the next node of the list; bare
\* tells to take the record fetched among those without interfaces
SyncNodeOn(bare) ==
    /\ sync.pc = "nodes"
    /\ sync.ids # <<>>
    /\ EventsQuiet
    /\ LET id == Head(sync.ids)
       IN  \E got \in BOOLEAN, wake \in BOOLEAN, o \in RequestOutcomes, now \in Clock :
           \E node \in IF ~got THEN {NoNode}
                        ELSE IF bare THEN BareSyncRecordsOf(id)
                        ELSE SyncRecordsOf(id) :
            LET out == syncNode(id, got, node, now, wake, o)
            IN  sync' = [sync EXCEPT !.pc = "synced", !.ids = Tail(sync.ids), !.id = id,
                                     !.got = got, !.node = node, !.now = now,
                                     !.fx = out.fx, !.err = out.err,
                                     !.done = Append(@, id),
                                     !.failed = @ \/ out.err]
    /\ UNCHANGED <<elected, chainSelf, cancelled, http, ev, call, stream>>

SyncNode == SyncNodeOn(FALSE)

SyncNodeBare == SyncNodeOn(TRUE)

\* faulty variant: the pass stops at the first node that failed
SyncNext_abortOnError ==
    /\ sync.pc = "synced"
    /\ EventsQuiet
    /\ sync' = [SyncAt(IF sync.err THEN "waitLong" ELSE "nodes", sync.ids)
                    EXCEPT !.done = sync.done, !.failed = sync.failed]
    /\ UNCHANGED <<elected, chainSelf, cancelled, http, ev, call, stream>>

\* syncNodes: the error of syncNode is logged and the loop goes on
SyncNext ==
    /\ sync.pc = "synced"
    /\ EventsQuiet
    /\ sync' = [SyncAt("nodes", sync.ids) EXCEPT !.done = sync.done,
                                                 !.failed = sync.failed]
    /\ UNCHANGED <<elected, chainSelf, cancelled, http, ev, call, stream>>

\* faulty variant: a pass in which a node failed is retried after the minute
SyncDone_shortOnFailure ==
    /\ sync.pc = "nodes"
    /\ sync.ids = <<>>
    /\ EventsQuiet
    /\ sync' = [SyncAt(IF sync.failed THEN "waitShort" ELSE "waitLong", <<>>)
                    EXCEPT !.done = sync.done, !.failed = sync.failed]
    /\ UNCHANGED <<elected, chainSelf, cancelled, http, ev, call, stream>>

\* syncNodes returns nil: synchronize waits for the hour
SyncDone ==
    /\ sync.pc = "nodes"
    /\ sync.ids = <<>>
    /\ EventsQuiet
    /\ sync' = [SyncAt("waitLong", <<>>) EXCEPT !.done = sync.done,
                                                !.failed = sync.failed]
    /\ UNCHANGED <<elected, chainSelf, cancelled, http, ev, call, stream>>

\* synchronize: <-time.After(1 * time.Minute) or <-time.After(1 * time.Hour)
SyncTimer ==
    /\ sync.pc \in {"waitShort", "waitLong"}
    /\ EventsQuiet
    /\ sync' = SyncAt("start", <<>>)
    /\ UNCHANGED <<elected, chainSelf, cancelled, http, ev, call, stream>>

\* faulty variant: the done context starts the next pass
SyncCancelled_retry ==
    /\ sync.pc \in {"waitShort", "waitLong"}
    /\ cancelled
    /\ EventsQuiet
    /\ sync' = SyncAt("start", <<>>)
    /\ UNCHANGED <<elected, chainSelf, cancelled, http, ev, call, stream>>

\* synchronize: <-ctx.Done()
SyncCancelled ==
    /\ sync.pc \in {"waitShort", "waitLong"}
    /\ cancelled
    /\ EventsQuiet
    /\ sync' = SyncAt("exited", <<>>)
    /\ UNCHANGED <<elected, chainSelf, cancelled, http, ev, call, stream>>

----------------------------------------------------------------------------
(* Functions of the server applied on their own *)

\* the clock of needNudge is read at most MaxTicks times after the first
MaxTicks == 30
\* netlink.RouteGet answers at most MaxRoutes routes
MaxRoutes == 2

\* the clock at the first call of needNudge: 0 and 1 700 000 000
Epochs == {U64(0, 0, 0, 0), U64(61696, 25939, 0, 0)}

\* the link indices of the host: the zos bridge and two other links
Links == {ZosIndex - 1, ZosIndex, ZosIndex + 1}

\* what netlink.RouteGet may answer
RouteResults ==
    {[err |-> TRUE, routes |-> <<>>]} \cup
    [err : {FALSE},
     routes : UNION {[1..n -> [Gw : BOOLEAN, LinkIndex : Links]] : n \in 0..MaxRoutes}]

\* needNudge(id, ts) is called at some time
AskNudge ==
    /\ call.fn = "none"
    /\ \E id \in Nodes, ts \in LastUpTimes, now \in Epochs :
        LET need == needNudge(id, ts, now)
        IN  call' = [fn |-> "needNudge", id |-> id, ts |-> ts, now |-> now, ticks |-> 0,
                     first |-> need, need |-> need, changes |-> 0]
    /\ UNCHANGED <<elected, chainSelf, cancelled, http, ev, sync, stream>>

\* needNudge(id, ts) is called again, one unit of time later
Tick ==
    /\ call.fn = "needNudge"
    /\ call.ticks < MaxTicks
    /\ LET now == AddU64(call.now, NudgeUnit)
           need == needNudge(call.id, call.ts, now)
       IN  call' = [call EXCEPT !.now = now, !.ticks = @ + 1, !.need = need,
                                !.changes = IF need # call.need THEN @ + 1 ELSE @]
    /\ UNCHANGED <<elected, chainSelf, cancelled, http, ev, sync, stream>>

\* powerRequest(ip, in) is called
CallPowerRequest ==
    /\ call.fn = "none"
    /\ \E ip \in IPs, o \in RequestOutcomes,
          in \in [Leader : Nodes, Node : Nodes, Target : {downTarget}] :
        call' = [fn |-> "powerRequest", ip |-> ip, in |-> in, o |-> o,
                 out |-> powerRequest(ip, in, o)]
    /\ UNCHANGED <<elected, chainSelf, cancelled, http, ev, sync, stream>>

\* IsDirect(ip) is called
CallIsDirect ==
    /\ call.fn = "none"
    /\ \E ip \in IPs, r \in RouteResults :
        call' = [fn |-> "IsDirect", ip |-> ip, lookup |-> r, out |-> IsDirectOn(ip, r)]
    /\ UNCHANGED <<elected, chainSelf, cancelled, http, ev, sync, stream>>

\* the error values handed to NewStateResult: nil, an error that is no
\* response, the responses of Ok, UnChanged and Paused, and a response wrapped
\* in another error; s is the state of the response, msg what Error() gives
NilError == [kind |-> "nil", s |-> "", msg |-> ""]

Responses ==
    {[kind |-> "response", s |-> "ok", msg |-> ""],
     [kind |-> "response", s |-> "unchanged", msg |-> ""],
     [kind |-> "response", s |-> "unchanged", msg |-> "cause"],
     [kind |-> "response", s |-> "paused", msg |-> "paused"]}

ErrorValues ==
    {NilError, [kind |-> "plain", s |-> "", msg |-> "failed"]}
        \cup Responses
        \cup {[r EXCEPT !.kind = "wrapped", !.msg = "wrapped"] : r \in Responses}

\* NewStateResult: panics when the error is not nil, else returns the
\* stateResult that holds it
NewStateResult(err) ==
    IF err # NilError
    THEN [panic |-> TRUE, value |-> [err |-> NilError]]
    ELSE [panic |-> FALSE, value |-> [err |-> err]]

\* stateResult.Result: e.err.Error() on a nil error is a nil dereference;
\* the state is the one of the response found by errors.As, else "error"
Result(e) ==
    IF e.err = NilError
    THEN [panic |-> TRUE, Error |-> "", State |-> ""]
    ELSE [panic |-> FALSE, Error |-> e.err.msg,
          State |-> IF e.err.kind \in {"response", "wrapped"} THEN e.err.s ELSE "error"]

\* NewStateResult(err) is called
CallNewStateResult ==
    /\ call.fn = "none"
    /\ \E err \in ErrorValues :
        call' = [fn |-> "NewStateResult", err |-> err, out |-> NewStateResult(err)]
    /\ UNCHANGED <<elected, chainSelf, cancelled, http, ev, sync, stream>>

\* Result() is called on the state result NewStateResult returned
CallResult ==
    /\ call.fn = "NewStateResult"
    /\ ~call.out.panic
    /\ call' = [fn |-> "Result", e |-> call.out.value, out |-> Result(call.out.value)]
    /\ UNCHANGED <<elected, chainSelf, cancelled, http, ev, sync, stream>>

\* the result is taken
Return ==
    /\ call.fn # "none"
    /\ call' = NoCall
    /\ UNCHANGED <<elected, chainSelf, cancelled, http, ev, sync, stream>>

----------------------------------------------------------------------------
(* Specifications *)

\* Start has launched the goroutines and serves
Init ==
    /\ elected = 0
    /\ chainSelf \in [target : {"Up", "Down"}, state : {"Up", "Down"}, leader : {0}]
    /\ cancelled = FALSE
    /\ http = HttpIdle
    /\ ev = EvAt("mark")
    /\ sync = SyncAt("start", <<>>)
    /\ call = NoCall
    /\ stream = NoStream

\* the HTTP server and the environment of its handler
NextHttp == Arrive \/ Serve \/ Respond \/ Elect \/ SetTarget

SpecHttp == Init /\ [][NextHttp]_vars

\* the events goroutine from its start to its end
NextEvents ==
    \/ MarkDone \/ SyncSelf \/ Subscribe \/ SubscribeFail \/ Receive
    \/ HandleEventFew \/ NextEvent \/ StreamEnd \/ RetryCancelled \/ RetryTimer
    \/ Cancel

SpecEvents == Init /\ [][NextEvents]_vars

\* the two goroutines acting on neighbors, on every record within the bounds.
\* They share no state: one of them at a time is within an operation.
InitPeer ==
    /\ elected = 0
    /\ chainSelf = [target |-> "Up", state |-> "Up", leader |-> 0]
    /\ cancelled = FALSE
    /\ http = HttpIdle
    /\ ev = EvAt("stream")
    /\ sync = SyncAt("start", <<>>)
    /\ call = NoCall
    /\ stream = NoStream

NextPeer ==
    \/ Receive \/ HandleEvent \/ NextEvent
    \/ SyncStart \/ SyncStartFail \/ SyncNode \/ SyncNext \/ SyncDone \/ SyncTimer

SpecPeer == InitPeer /\ [][NextPeer]_vars

\* the three activities of Start until they end, on the records without
\* interfaces and the requests of one peer.  Once the
\* context is done the selects take <-ctx.Done(), the closed stream ends the
\* range loop of recv and the server is shut down; every other step of the
\* goroutines ends by itself.
NextStop ==
    \/ MarkDone \/ SyncSelf \/ Subscribe \/ SubscribeFail \/ Receive
    \/ HandleEventBare \/ NextEvent \/ StreamEnd \/ StreamCancelled
    \/ RetryCancelled \/ RetryTimer
    \/ SyncStart \/ SyncStartFail \/ SyncNodeBare \/ SyncNext \/ SyncDone
    \/ SyncTimer \/ SyncCancelled
    \/ ArriveFew \/ Serve \/ Respond \/ ServerShutdown
    \/ Cancel

FairStop ==
    /\ WF_vars(MarkDone) /\ WF_vars(SyncSelf)
    /\ WF_vars(Subscribe \/ SubscribeFail)
    /\ WF_vars(HandleEventBare) /\ WF_vars(NextEvent)
    /\ SF_vars(StreamCancelled) /\ SF_vars(RetryCancelled)
    /\ WF_vars(SyncStart \/ SyncStartFail)
    /\ WF_vars(SyncNodeBare) /\ WF_vars(SyncNext) /\ WF_vars(SyncDone)
    /\ SF_vars(SyncCancelled)
    /\ WF_vars(Serve) /\ WF_vars(Respond) /\ WF_vars(ServerShutdown)

SpecStop == Init /\ [][NextStop]_vars /\ FairStop

\* recv on a stream of numbered events, on the records without interfaces:
\* the loop takes an event when there is one and each handler returns
NextStream == Publish \/ Deliver \/ HandleEventBare \/ NextEvent

FairStream == WF_vars(Deliver) /\ WF_vars(HandleEventBare) /\ WF_vars(NextEvent)

SpecStream == InitPeer /\ [][NextStream]_vars /\ FairStream

\* needNudge, powerRequest, IsDirect and NewStateResult on the inputs within
\* the bounds
NextCall ==
    \/ AskNudge \/ Tick \/ CallPowerRequest \/ CallIsDirect
    \/ CallNewStateResult \/ CallResult \/ Return

SpecCall == Init /\ [][NextCall]_vars

----------------------------------------------------------------------------
(* Properties of POST /power *)

\* the request served passed the auth middleware and was answered
Served == http.pc = "done" /\ http.req.sigValid

\* the request served decodes to a body the checks of power let through
WellFormed ==
    /\ http.req.body.ok
    /\ http.req.body.Target = downTarget
    /\ http.req.caller = http.req.body.Leader

\* the handler wrote 'state down' to the ledger and called the local shutdown
ActedOnSelf ==
    /\ \E i \in At(http.fx, "SetStateDown") : http.fx[i].ok
    /\ At(http.fx, "Shutdown") # {}

\* C1: a POST /power request of a peer makes the node write 'state down' or
\* shut down only if that peer is the elected leader of the farm (taken
\* while the farm has an elected leader).
C1_OnlyElectedLeaderShutsDown ==
    (http.pc = "done" /\ http.elected # 0 /\ http.req.caller # Self /\ ActedOnSelf)
        => http.req.caller = http.elected

\* C3: in a POST /power request the local shutdown comes only after a
\* 'set state down' transaction that succeeded and records the caller as
\* leader, and 202 is answered only after the shutdown was invoked.
C3_LedgerThenShutdownThenAccepted ==
    http.pc = "done" =>
        /\ \A j \in At(http.fx, "Shutdown") \cup At(http.fx, "Reboot") \cup At(http.fx, "SendNow") :
              /\ j > 1
              /\ http.fx[1] = FxSetDown(http.req.caller, TRUE)
        /\ http.resp = StatusAccepted =>
              /\ At(http.fx, "SetStateDown") = {1}
              /\ http.fx[1] = FxSetDown(http.req.caller, TRUE)
              /\ At(http.fx, "Shutdown") # {}
              /\ chainSelf.state = "Down"
              /\ chainSelf.leader = http.req.caller

C3_Witness ==
    /\ Served
    /\ http.resp = StatusAccepted
    /\ http.req.caller # Self

\* C4: when the 'set state down' transaction of a POST /power request fails,
\* the local shutdown is not invoked and the answer is a 5xx.
C4_FailedLedgerWriteNoShutdown ==
    (http.pc = "done" /\ \E i \in At(http.fx, "SetStateDown") : ~http.fx[i].ok) =>
        /\ Kinds(http.fx) = {"SetStateDown"}
        /\ http.resp >= 500 /\ http.resp <= 599

C4_Witness ==
    /\ Served
    /\ \E i \in At(http.fx, "SetStateDown") : ~http.fx[i].ok

\* C5: a node that answers IsLeader with true rejects the request its handler
\* is given with 403, whatever the caller and the body, and writes nothing
\* to the ledger and does not shut down.
C5_LeaderRejects ==
    (Served /\ http.isLeader) => (http.resp = StatusForbidden /\ http.fx = <<>>)

C5_Witness ==
    /\ Served
    /\ http.isLeader
    /\ WellFormed
    /\ FarmOf(http.req.caller) = MyFarm
    /\ http.req.caller # Self

\* C8 as the specification states it: a request whose body has a target other than "down" is
\* answered 400, whether or not the receiver is the leader (taken for the
\* authenticated requests whose caller is the Leader of the body).
C8_OtherTargetAlways400 ==
    (/\ Served
     /\ http.req.body.ok
     /\ http.req.body.Target # downTarget
     /\ http.req.caller = http.req.body.Leader)
        => http.resp = StatusBadRequest

\* C8: a request whose body has a target other than "down" is answered 400
\* when it passed authentication, the receiver is not the leader and the
\* caller is the Leader of the body; nothing is written and nothing shut down.
C8_OtherTarget400 ==
    (/\ Served
     /\ ~http.isLeader
     /\ http.req.body.ok
     /\ http.req.body.Target # downTarget
     /\ http.req.caller = http.req.body.Leader)
        => (http.resp = StatusBadRequest /\ http.fx = <<>>)

C8_Witness ==
    /\ Served
    /\ ~http.isLeader
    /\ http.req.body.ok
    /\ http.req.body.Target # downTarget
    /\ http.req.caller = http.req.body.Leader
    /\ FarmOf(http.req.caller) = MyFarm

\* C9 as the specification states it: a request of an authenticated peer of another farm is
\* always answered 401, and nothing is written and nothing shut down (taken
\* for the requests that decode with target "down" and the caller as Leader,
\* the ledger lookup of the leader succeeding).
C9_OtherFarmAlways401 ==
    (/\ Served
     /\ FarmOf(http.req.caller) # MyFarm
     /\ WellFormed
     /\ http.chain.connect /\ http.chain.getNode)
        => (http.resp = StatusUnAuthorized /\ http.fx = <<>>)

\* C9: a request of an authenticated peer of another farm is never accepted,
\* writes nothing to the ledger and shuts nothing down; it is answered 401
\* when the receiver is not the leader, the body decodes, its target is
\* "down" and, if the caller is the Leader of the body, the ledger lookup of
\* the leader succeeds.
C9_OtherFarmRejected ==
    (Served /\ FarmOf(http.req.caller) # MyFarm) =>
        /\ http.fx = <<>>
        /\ http.resp # StatusAccepted
        /\ (/\ ~http.isLeader
            /\ http.req.body.ok
            /\ http.req.body.Target = downTarget
            /\ (http.req.caller = http.req.body.Leader
                    => (http.chain.connect /\ http.chain.getNode)))
              => http.resp = StatusUnAuthorized

C9_Witness ==
    /\ Served
    /\ FarmOf(http.req.caller) # MyFarm
    /\ ~http.isLeader
    /\ WellFormed
    /\ http.chain.connect /\ http.chain.getNode /\ http.chain.setState

\* C21: a POST /power request whose Node field is not the id of the node
\* that receives it leads to no ledger write and no local shutdown there.
C21_OnlyWhenAddressed ==
    (Served /\ http.req.body.ok /\ http.req.body.Node # Self)
        => http.fx = <<>>

\* C22: a POST /power request answered with anything other than 202 leaves
\* the power state the ledger holds for this node as it was.
C22_NotAcceptedLeavesLedger ==
    [][(/\ http.pc = "serving"
        /\ http'.pc = "done"
        /\ http'.resp # StatusAccepted)
            => chainSelf'.state = chainSelf.state]_vars

----------------------------------------------------------------------------
(* Properties of the events goroutine *)

\* C2: the event consumer stops only when the context is cancelled: whenever
\* the stream ends with the context not cancelled, it goes on to subscribe
\* again.
C2_StopsOnlyWhenCancelled ==
    [][(ev.pc # "exited" /\ ev'.pc = "exited") => cancelled]_vars

\* syncSelf has run on the record it fetched
SelfSynced == ev.pc = "synced" /\ ev.got

\* C6: on an own record with Target.IsUp, and the ledger reachable, syncSelf
\* issues a 'set state up' transaction if and only if the recorded state was
\* not already up; it issues no 'state down' transaction and does not shut
\* the node down.
C6_SetUpIffNotAlreadyUp ==
    (SelfSynced /\ ev.node.Power.target = "Up" /\ ev.chain.connect) =>
        /\ (At(ev.fx, "SetStateUp") # {}) <=> (ev.node.Power.state # "Up")
        /\ Kinds(ev.fx) \subseteq {"SetStateUp"}

\* C7: on an own record whose target is not up, syncSelf calls the local
\* shutdown exactly when State.IsDown, and then sends no wake packet and
\* writes no power state to the ledger; when the state is not down it does
\* nothing at all.
C7_TargetDownShutsDownIffStateDown ==
    (SelfSynced /\ ev.node.Power.target # "Up") =>
        /\ (At(ev.fx, "Shutdown") # {}) <=> (ev.node.Power.state = "Down")
        /\ Kinds(ev.fx) \subseteq {"SendNow", "Shutdown", "Reboot"}
        /\ ev.node.Power.state # "Down" => (ev.fx = <<>> /\ ~ev.err)

C7_Witness ==
    /\ SelfSynced
    /\ ev.node.Power.target = "Down"
    /\ ev.node.Power.state = "Down"
    /\ At(ev.fx, "Shutdown") # {}

----------------------------------------------------------------------------
(* Properties of the peer power-down *)

\* how often x occurs in a sequence
Count(seq, x) == Cardinality({i \in DOMAIN seq : seq[i] = x})

\* DirectLinkProbe reports the address as direct
ReportedDirect(ip) == IsDirect(ip) = [local |-> TRUE, err |-> FALSE]

\* the addresses of the node's zos interface: of the first interface of
\* that name
ZosIPs(node) ==
    LET ifs == node.Interfaces
    IN  IF \A i \in DOMAIN ifs : ifs[i].Name # "zos" THEN <<>>
        ELSE ifs[CHOOSE i \in DOMAIN ifs :
                    /\ ifs[i].Name = "zos"
                    /\ \A j \in 1..(i - 1) : ifs[j].Name # "zos"].IPs

\* the effects fx are one power-down request, with the body
\* {Leader: Self, Node: the neighbor, Target: "down"}, for each entry of the
\* neighbor's zos interface that is reported direct, and nothing else
PeerPowerDownOf(node, fx) ==
    /\ \A k \in DOMAIN fx :
          /\ fx[k].kind = "PowerRequest"
          /\ fx[k].leader = Self
          /\ fx[k].node = node.ID
          /\ fx[k].target = "down"
    /\ \A ip \in IPs :
          Cardinality({k \in DOMAIN fx : fx[k].addr = ip})
              = IF ReportedDirect(ip) THEN Count(ZosIPs(node), ip) ELSE 0

\* an event of the farm asked to power a neighbor down and its record was fetched
DownEventHandled ==
    /\ ev.pc = "handled"
    /\ ev.event.FarmID = MyFarm
    /\ ev.event.NodeID # Self
    /\ ev.event.Target = "Down"
    /\ ev.got

\* the full sync found a neighbor with target down and state not down
DownNodeSynced ==
    /\ sync.pc = "synced"
    /\ sync.got
    /\ sync.id # Self
    /\ sync.node.Power.target # "Up"
    /\ sync.node.Power.state # "Down"

\* C10: the peer power-down of a neighbor, after a down event of the farm or
\* in the full sync, calls powerRequest exactly once, with the body
\* {Leader: Self, Node: the neighbor, Target: "down"}, for each address of
\* the neighbor's zos interface that is reported direct, and for no address
\* that is not direct, fails the probe or belongs to another interface.
C10_PeerPowerDownRequests ==
    /\ DownEventHandled => PeerPowerDownOf(ev.node, ev.fx)
    /\ DownNodeSynced => PeerPowerDownOf(sync.node, sync.fx)

C10_Witness ==
    /\ DownEventHandled
    /\ Len(ev.node.Interfaces) = 2
    /\ ev.node.Interfaces[1].Name = "eth0"
    /\ ev.node.Interfaces[1].IPs = <<"10.0.0.5">>
    /\ ev.node.Interfaces[2].Name = "zos"
    /\ ev.node.Interfaces[2].IPs = <<"10.0.0.5">>
    /\ Len(ev.fx) = 1

----------------------------------------------------------------------------
(* Properties of the full sync *)

\* syncNode has run on the record it fetched
NodeSynced == sync.pc = "synced" /\ sync.got

\* the deadline of the nudge: LastUpTime + (24 + id mod 24) * 1200 seconds,
\* the sum being one of uint64 values
NudgeDeadline(id, ts) == AddU64(ts, (24 + (id % 24)) * 1200)

\* the MAC of the node's zos interface: of the first interface of that name
ZosMac(node) ==
    LET ifs == node.Interfaces
    IN  IF \A i \in DOMAIN ifs : ifs[i].Name # "zos" THEN ""
        ELSE ifs[CHOOSE i \in DOMAIN ifs :
                    /\ ifs[i].Name = "zos"
                    /\ \A j \in 1..(i - 1) : ifs[j].Name # "zos"].Mac

----------------------------------------------------------------------------
(* Properties of needNudge, powerRequest and IsDirect *)

\* C12: for a fixed node id and last-uptime timestamp, as the clock advances
\* needNudge is true exactly from the computed deadline (the uint64 sum,
\* taken modulo 2^64) on: it changes from false to true once, when the clock
\* reaches the deadline, and never returns to false.
C12_NudgeMonotonic ==
    call.fn = "needNudge" =>
        /\ call.need <=> GeqU64(call.now, NudgeDeadline(call.id, call.ts))
        /\ call.first => call.need
        /\ call.changes = (IF call.first = call.need THEN 0 ELSE 1)

C12_Witness ==
    /\ call.fn = "needNudge"
    /\ call.ts = U64(64536, 65535, 65535, 65535)
    /\ call.changes = 1
    /\ call.need
    /\ call.now = NudgeDeadline(call.id, U64(0, 0, 0, 0))

\* C14: powerRequest returns an error only when the request cannot be built
\* on the node; once the request is handed to the http client it returns
\* nil, whether the connection fails, the peer rejects or the peer accepts.
C14_OnlyBuildErrors ==
    call.fn = "powerRequest" =>
        /\ call.out.err <=> (call.o = "buildError")
        /\ call.o \in {"connError", "rejected", "accepted"} =>
              /\ ~call.out.err
              /\ \E i \in DOMAIN call.out.fx :
                    /\ call.out.fx[i].kind = "PowerRequest"
                    /\ call.out.fx[i].ok
                    /\ call.out.fx[i].addr = call.ip

C14_Witness ==
    /\ call.fn = "powerRequest"
    /\ call.o = "connError"
    /\ ~call.out.err

\* C15: IsDirect returns an error exactly when the address does not parse;
\* when the route lookup fails it returns (false, nil); otherwise it returns
\* (true, nil) if and only if one of the routes has no gateway and the link
\* index of the zos interface, and (false, nil) in every other case.
C15_IsDirect ==
    call.fn = "IsDirect" =>
        LET routes == call.lookup.routes
            direct == \E i \in DOMAIN routes :
                         routes[i] = [Gw |-> FALSE, LinkIndex |-> ZosIndex]
        IN  /\ call.out.err <=> (call.ip = "not-an-ip")
            /\ call.out.err => ~call.out.local
            /\ (call.ip # "not-an-ip" /\ call.lookup.err) => ~call.out.local
            /\ (call.ip # "not-an-ip" /\ ~call.lookup.err) => (call.out.local <=> direct)

C15_Witness ==
    /\ call.fn = "IsDirect"
    /\ call.ip = "10.0.1.9"
    /\ Len(call.lookup.routes) = 2
    /\ call.lookup.routes[1].Gw
    /\ call.lookup.routes[2] = [Gw |-> FALSE, LinkIndex |-> ZosIndex]
    /\ call.out = [local |-> TRUE, err |-> FALSE]

----------------------------------------------------------------------------
(* Properties of Start *)

\* the events goroutine, the synchronize goroutine and the server have ended
AllStopped == ev.pc = "exited" /\ sync.pc = "exited" /\ http.pc = "closed"

\* C13: once the context of Start is cancelled, the event consumer, the
\* full-sync loop and the HTTP server all end.
C13_CancelStopsAll == cancelled ~> AllStopped

C13_Witness == cancelled /\ AllStopped

----------------------------------------------------------------------------
(* Properties of the full-sync loop *)

\* C16: the full-sync loop waits the short delay (the select with the
\* one-minute timer) exactly after a pass that failed on the ledger
\* connection or the listing of the farm's nodes, waits the long interval
\* (the select with the one-hour timer) after every pass that went through
\* the list, whether or not a node of it failed, starts the next pass after
\* either wait, and exits only from a wait, when the context is cancelled.
C16_SyncLoopWaits ==
    [][sync'.pc # sync.pc =>
        /\ sync.pc = "start" => sync'.pc \in {"nodes", "waitShort"}
        /\ sync'.pc = "waitShort" => (sync.pc = "start" /\ ~sync'.failed)
        /\ sync'.pc = "waitLong" =>
              /\ sync.pc = "nodes"
              /\ sync.done = FarmNodeList
              /\ sync'.failed = sync.failed
        /\ (sync.pc = "nodes" /\ sync.ids = <<>>) => sync'.pc = "waitLong"
        /\ sync.pc = "synced" => sync'.pc = "nodes"
        /\ sync.pc \in {"waitShort", "waitLong"} => sync'.pc \in {"start", "exited"}
        /\ sync'.pc = "exited" => (cancelled /\ sync.pc \in {"waitShort", "waitLong"})
      ]_vars

\* a pass in which a node failed is followed by the long wait
C16_Witness == sync.pc = "waitLong" /\ sync.failed

----------------------------------------------------------------------------
(* Properties of the event handler *)

\* C17: the handling of an event of another farm, or of an event about Self,
\* sends no Wake-on-LAN packet and no power-down request and does not shut
\* the node down, whatever the target of the event and the record of the
\* node; an event of another farm is not even looked up on the ledger.
C17_ForeignAndSelfEventsIgnored ==
    (ev.pc = "handled" /\ (ev.event.FarmID # MyFarm \/ ev.event.NodeID = Self)) =>
        /\ ev.fx = <<>>
        /\ ev.event.FarmID # MyFarm => ~ev.err

C17_Witness ==
    /\ ev.pc = "handled"
    /\ ev.event = [FarmID |-> MyFarm, NodeID |-> Self, Target |-> "Down"]
    /\ ev.got
    /\ Len(ev.node.Interfaces) = 1
    /\ ev.node.Interfaces[1].Name = "zos"
    /\ ev.node.Interfaces[1].IPs = <<"10.0.0.5">>

----------------------------------------------------------------------------
(* Properties of recv *)

\* the events of the stream are handled one at a time, in the order of
\* their numbers
InOrder ==
    /\ Len(stream.busy) <= 1
    /\ \A i \in DOMAIN stream.done : stream.done[i].n = i
    /\ \A i \in DOMAIN stream.busy : stream.busy[i] = Len(stream.done) + i
    /\ \A i \in DOMAIN stream.pending :
          stream.pending[i] = Len(stream.done) + Len(stream.busy) + i
    /\ stream.busy # <<>> <=> ev.pc = "event"

\* C18: the events are handled one at a time in the order they arrive on
\* the stream, no two handlers being in progress at once, and every event
\* that arrives is handled, whether or not a handler before it failed.
C18_OneAtATimeInOrder ==
    /\ []InOrder
    /\ \A n \in 1..MaxEvents : (stream.sent >= n) ~> (Len(stream.done) >= n)

\* the handler of the first event failed and the second event was handled
C18_Witness ==
    /\ Len(stream.done) >= 2
    /\ stream.done[1].err
    /\ ~stream.done[2].err

----------------------------------------------------------------------------
(* Properties of a pass of syncNodes *)

\* C19: a pass of syncNodes calls syncNode once on each node of the list,
\* in the order of the list, whether or not the calls before failed, and
\* ends in the long wait: at every point of the pass the nodes done followed
\* by the nodes still to do are the list.
C19_EveryNodeAttemptedOnce ==
    /\ sync.pc \in {"nodes", "synced"} => sync.done \o sync.ids = FarmNodeList
    /\ sync.pc = "synced" => sync.id = sync.done[Len(sync.done)]
    /\ sync.pc = "waitLong" => sync.done = FarmNodeList
    /\ sync.failed => sync.pc \in {"nodes", "synced", "waitLong"}

\* a node failed earlier in the pass and the last node of the list was
\* still reconciled: power-down requests were sent to it
C19_Witness ==
    /\ sync.pc = "synced"
    /\ sync.failed
    /\ ~sync.err
    /\ sync.ids = <<>>
    /\ At(sync.fx, "PowerRequest") # {}

\* C20: the full sync sends no Wake-on-LAN packet for Self and no
\* power-down request to Self, whose id is in the list of the farm's nodes.
C20_NoSyncActionOnSelf ==
    (sync.pc = "synced" /\ sync.id = Self) =>
        (At(sync.fx, "Wake") = {} /\ At(sync.fx, "PowerRequest") = {})

----------------------------------------------------------------------------
(* Properties of the state result *)

\* C23: NewStateResult panics if and only if the error passed to it is nil,
\* every state result it returns holds a non-nil error, and Result() on it
\* does not fail.
C23_PanicsIffNil ==
    /\ call.fn = "NewStateResult" =>
          /\ call.out.panic <=> (call.err = NilError)
          /\ ~call.out.panic => call.out.value.err # NilError
    /\ call.fn = "Result" => ~call.out.panic

====
